---- MODULE Spec2Model ----
(***************************************************************************)
(* Model of the account store and the request handlers of the dashboard    *)
(* server: authentication middleware, the mutation controllers and the     *)
(* UserService mutation methods (updateUser, deleteUser, transferCredit,   *)
(* adjustCredit, banUser, unbanUser).  Every await of a handler is a       *)
(* separate step, so requests in flight interleave at the datastore calls. *)
(***************************************************************************)
EXTENDS Integers, FiniteSets, Sequences, TLC

\* ------------------------------------------------------------------------
\* Bounds and input sets
\* ------------------------------------------------------------------------

\* total number of requests received in one behaviour
MaxRequests == 2

\* two requests may be in flight at the same time
Slots == {1, 2}

\* account ids; the last ones are the ids of no account until createUser
\* saves one
Ids == 1 .. 6

\* accounts whose access token is presented by a request
ActorIds == {1, 2, 4}

\* ids used as :id in the request path
TargetIds == {3, 4, 5}

\* req.body.amount: a JSON number, or a value that is not a number
NotANumber == [isNum |-> FALSE, val |-> 0]
Amounts == {[isNum |-> TRUE, val |-> v] : v \in {-1, 0, 1}} \cup {NotANumber}

\* req.body of PUT /user/:id, one $set field per request
NoUpdates == [field |-> "none", num |-> 0, bool |-> FALSE, str |-> ""]
UpdateBodies == { [field |-> "parentId", num |-> 2, bool |-> FALSE, str |-> ""],
                  [field |-> "isActive", num |-> 0, bool |-> FALSE, str |-> ""] }

Ops == {"update", "delete", "transfer", "adjust", "ban", "unban"}

Roles == {"admin", "super_distributor", "distributor", "retailer", "user"}

\* a role string outside the schema's enum
UnknownRole == "other"

VARIABLES
  users,     \* the users collection: id -> document
  req,       \* slot -> the request in flight in that slot and its locals
  started,   \* number of requests received so far
  authIn,    \* inputs of a stand-alone permission decision
  authOut,   \* its result: 0 (not decided), 200 (allowed) or 403
  tokens,    \* the signed tokens issued so far and not yet expired
  nextId,    \* the id the next saved document gets
  listing,   \* the last answer of a listing method: method, root, ids
  logs       \* the log collection: the entries saved so far, oldest first

vars == <<users, req, started, authIn, authOut, tokens, nextId, listing, logs>>

\* ------------------------------------------------------------------------
\* The users collection (models/User.ts)
\* ------------------------------------------------------------------------

\* the result of a findById that matches no document
NullUser ==
  [exists |-> FALSE, role |-> "", parentId |-> 0, createdBy |-> 0,
   creditBalance |-> 0, isActive |-> FALSE, isBanned |-> FALSE, isOnline |-> FALSE,
   createdAt |-> 0]

\* a document as auth.controller createUser saves it: parentId is not set,
\* creditBalance defaults to 0, isActive to true, isBanned to false, and
\* timestamps: true stamps createdAt
NewUser(role, createdBy, balance, online, createdAt) ==
  [exists |-> TRUE, role |-> role, parentId |-> 0, createdBy |-> createdBy,
   creditBalance |-> balance, isActive |-> TRUE, isBanned |-> FALSE, isOnline |-> online,
   createdAt |-> createdAt]

\* User.findById(id)
FindById(id) == users[id]

\* the store the requests start from: an admin, two distributors and a user
\* created through createUser, credit given through adjustCredit, and the
\* accounts of ActorIds logged in (login sets isOnline)
InitUsers ==
  [i \in Ids |->
     CASE i = 1 -> NewUser("admin", 1, 1, TRUE, i)
       [] i = 2 -> NewUser("distributor", 1, 1, TRUE, i)
       [] i = 3 -> NewUser("distributor", 1, 0, FALSE, i)
       [] i = 4 -> NewUser("user", 2, 0, TRUE, i)
       [] OTHER -> NullUser]

\* the first id of InitUsers that has no document
FirstFreeId == CHOOSE i \in Ids : ~InitUsers[i].exists /\ \A j \in Ids : j < i => InitUsers[j].exists

\* the payload of the access token login issued to account id: the role is
\* the role stored at login time
TokenOf(id) == [userId |-> id, role |-> InitUsers[id].role]

\* generateAccessToken: the signed payload (its userId and role are read back)
GenerateAccessToken(payload) == [kind |-> "access", userId |-> payload.userId, role |-> payload.role]
\* the refresh token carries the userId alone
GenerateRefreshToken(payload) == [kind |-> "refresh", userId |-> payload.userId, role |-> ""]

\* no listing method has answered yet
NoListing == [method |-> "none", root |-> 0, ids |-> <<>>]

\* ------------------------------------------------------------------------
\* Role checks, one per service method as the source repeats them
\* ------------------------------------------------------------------------

\* the role checks of UserService.updateUser: TRUE when no 'Access denied' is thrown
UpdatePermitted(actorRole, targetRole) ==
  IF actorRole = "admin" THEN TRUE
  ELSE IF actorRole = "super_distributor"
       THEN ~(targetRole = "admin" \/ targetRole = "super_distributor")
  ELSE IF actorRole = "distributor"
       THEN targetRole \in {"retailer", "user"}
  ELSE IF actorRole = "retailer"
       THEN targetRole = "user"
  ELSE FALSE

\* the role checks of UserService.deleteUser: TRUE when no 'Access denied' is thrown
DeletePermitted(actorRole, targetRole) ==
  IF actorRole = "admin" THEN TRUE
  ELSE IF actorRole = "super_distributor"
       THEN ~(targetRole = "admin" \/ targetRole = "super_distributor")
  ELSE IF actorRole = "distributor"
       THEN targetRole \in {"retailer", "user"}
  ELSE IF actorRole = "retailer"
       THEN targetRole = "user"
  ELSE FALSE

\* the role checks of UserService.transferCredit: TRUE when no 'Access denied' is thrown
TransferPermitted(actorRole, targetRole) ==
  IF actorRole = "admin" THEN TRUE
  ELSE IF actorRole = "super_distributor"
       THEN ~(targetRole = "admin" \/ targetRole = "super_distributor")
  ELSE IF actorRole = "distributor"
       THEN targetRole \in {"retailer", "user"}
  ELSE IF actorRole = "retailer"
       THEN targetRole = "user"
  ELSE FALSE

\* the role checks of UserService.adjustCredit: TRUE when no 'Access denied' is thrown
AdjustPermitted(actorRole, targetRole) ==
  IF actorRole = "admin" THEN TRUE
  ELSE IF actorRole = "super_distributor"
       THEN ~(targetRole = "admin" \/ targetRole = "super_distributor")
  ELSE IF actorRole = "distributor"
       THEN targetRole \in {"retailer", "user"}
  ELSE IF actorRole = "retailer"
       THEN targetRole = "user"
  ELSE FALSE

\* a faulty variant of banUser's role checks: a comparison of role ranks
\* instead of the per-role target sets
BanPermittedByRank(actorRole, targetRole) ==
  LET rank(r) == CASE r = "admin" -> 5 [] r = "super_distributor" -> 4
                   [] r = "distributor" -> 3 [] r = "retailer" -> 2
                   [] r = "user" -> 1 [] OTHER -> 0
  IN  actorRole = "admin" \/ (rank(actorRole) > 1 /\ rank(actorRole) >= rank(targetRole))

\* the role checks of UserService.banUser: TRUE when no 'Access denied' is thrown
BanPermitted(actorRole, targetRole) ==
  IF actorRole = "admin" THEN TRUE
  ELSE IF actorRole = "super_distributor"
       THEN ~(targetRole = "admin" \/ targetRole = "super_distributor")
  ELSE IF actorRole = "distributor"
       THEN targetRole \in {"retailer", "user"}
  ELSE IF actorRole = "retailer"
       THEN targetRole = "user"
  ELSE FALSE

\* the role checks of UserService.unbanUser: TRUE when no 'Access denied' is thrown
UnbanPermitted(actorRole, targetRole) ==
  IF actorRole = "admin" THEN TRUE
  ELSE IF actorRole = "super_distributor"
       THEN ~(targetRole = "admin" \/ targetRole = "super_distributor")
  ELSE IF actorRole = "distributor"
       THEN targetRole \in {"retailer", "user"}
  ELSE IF actorRole = "retailer"
       THEN targetRole = "user"
  ELSE FALSE

\* the role check of the service method that serves operation op
Permitted(op, actorRole, targetRole) ==
  CASE op = "update"   -> UpdatePermitted(actorRole, targetRole)
    [] op = "delete"   -> DeletePermitted(actorRole, targetRole)
    [] op = "transfer" -> TransferPermitted(actorRole, targetRole)
    [] op = "adjust"   -> AdjustPermitted(actorRole, targetRole)
    [] op = "ban"      -> BanPermitted(actorRole, targetRole)
    [] op = "unban"    -> UnbanPermitted(actorRole, targetRole)

\* a faulty variant of getUserById's view check: no parentId comparison
CanViewAnyone(actorRole, actorId, targetDoc) == TRUE

\* UserService.getUserById's view check: TRUE when no 'Access denied' is thrown
CanView(actorRole, actorId, targetDoc) ==
  ~(actorRole # "admin" /\ targetDoc.parentId # actorId)

\* the controllers' amount validation: !amount || typeof amount !== 'number'
InvalidAmount(amount) == ~amount.isNum \/ amount.val = 0

\* a faulty variant of the balance check: off by one
InsufficientCreditOffByOne(balance, amount) == balance + 1 < amount.val

\* transferCredit's balance check: currentUserDoc.creditBalance < amount
InsufficientCredit(balance, amount) == balance < amount.val

\* { $set: updates } applied to a document
ApplyUpdates(doc, upd) ==
  CASE upd.field = "parentId" -> [doc EXCEPT !.parentId = upd.num]
    [] upd.field = "isActive" -> [doc EXCEPT !.isActive = upd.bool]
    [] upd.field = "role"     -> [doc EXCEPT !.role = upd.str]
    [] upd.field = "creditBalance" -> [doc EXCEPT !.creditBalance = upd.num]
    [] OTHER -> doc

\* a faulty variant of $inc: the balance is overwritten with n
IncBalanceOverwrite(doc, n) == [doc EXCEPT !.creditBalance = n]

\* { $inc: { creditBalance: n } } applied to a document
IncBalance(doc, n) == [doc EXCEPT !.creditBalance = @ + n]

\* a faulty variant of banUser's $set: the account stays online
BanSetKeepsOnline(doc) == [doc EXCEPT !.isBanned = TRUE, !.isActive = FALSE]

\* banUser's $set
BanSet(doc) == [doc EXCEPT !.isBanned = TRUE, !.isActive = FALSE, !.isOnline = FALSE]

\* unbanUser's $set
UnbanSet(doc) == [doc EXCEPT !.isBanned = FALSE, !.isActive = TRUE]

\* ------------------------------------------------------------------------
\* Requests
\* ------------------------------------------------------------------------

\* a slot with no request; also the initial value of a request's locals
Idle ==
  [pc |-> "idle", op |-> "none", actor |-> 0, role |-> "", target |-> 0,
   amount |-> NotANumber, updates |-> NoUpdates, tRole |-> "",
   password |-> FALSE, status |-> 0, msg |-> "", debited |-> FALSE, applied |-> FALSE,
   id |-> 0, authenticated |-> FALSE, logged |-> "no"]

Free(s) == req[s].pc \in {"idle", "done"}

\* the request of slot s becomes r
Continue(s, r) == req' = [req EXCEPT ![s] = r]

\* res.status(status).json({message: msg}) ends the request of slot s
Respond(s, r, status, msg) ==
  req' = [req EXCEPT ![s] = [r EXCEPT !.pc = "done", !.status = status, !.msg = msg]]

\* an HTTP request arrives: its access token, :id, and body
Receive(s) ==
  /\ Free(s)
  /\ \A t \in Slots : t < s => ~Free(t)
  /\ started < MaxRequests
  /\ \E op \in Ops, a \in {k \in ActorIds : GenerateAccessToken(TokenOf(k)) \in tokens}, t \in TargetIds :
       \E amt \in (IF op \in {"transfer", "adjust"} THEN Amounts ELSE {NotANumber}) :
         \E upd \in (IF op = "update" THEN UpdateBodies ELSE {NoUpdates}) :
           req' = [req EXCEPT ![s] =
                     [Idle EXCEPT !.pc = "auth", !.op = op, !.actor = TokenOf(a).userId,
                                  !.role = TokenOf(a).role, !.target = t,
                                  !.amount = amt, !.updates = upd]]
  /\ started' = started + 1
  /\ UNCHANGED <<users, authIn, authOut, tokens, nextId, listing, logs>>

\* a faulty variant of authenticate: a banned account passes
AuthenticateIgnoresBan(s) ==
  /\ req[s].pc = "auth"
  /\ LET r == req[s]
         user == FindById(r.actor)
     IN  IF ~user.exists
         THEN Respond(s, r, 401, "User not found")
         ELSE IF ~user.isActive /\ ~user.isBanned
         THEN Respond(s, r, 401, "Account is inactive or banned")
         ELSE Continue(s, [r EXCEPT !.pc = IF r.op \in {"ban", "unban", "view"} THEN "view" ELSE "check",
                                    !.authenticated = TRUE])
  /\ UNCHANGED <<users, started, authIn, authOut, tokens, nextId, listing, logs>>

\* middleware authenticate: the account of the token must exist, be active
\* and not banned; req.user takes its role from the token
Authenticate(s) ==
  /\ req[s].pc = "auth"
  /\ LET r == req[s]
         user == FindById(r.actor)
     IN  IF ~user.exists
         THEN Respond(s, r, 401, "User not found")
         ELSE IF ~user.isActive \/ user.isBanned
         THEN Respond(s, r, 401, "Account is inactive or banned")
         ELSE Continue(s, [r EXCEPT !.pc = IF r.op \in {"ban", "unban", "view"} THEN "view" ELSE "check",
                                    !.authenticated = TRUE])
  /\ UNCHANGED <<users, started, authIn, authOut, tokens, nextId, listing, logs>>

\* a faulty variant of updateUser's checks: the role checks come before the
\* existence check
UpdateCheckRoleFirst(s) ==
  /\ req[s].pc = "check" /\ req[s].op = "update"
  /\ LET r == req[s]
         targetUser == FindById(r.target)
     IN  IF ~UpdatePermitted(r.role, targetUser.role)
         THEN Respond(s, r, 403, "Access denied")
         ELSE IF ~targetUser.exists
         THEN Respond(s, r, 404, "User not found")
         ELSE Continue(s, [r EXCEPT !.pc = "write"])
  /\ UNCHANGED <<users, started, authIn, authOut, tokens, nextId, listing, logs>>

\* updateUser: findById and the role checks
UpdateCheck(s) ==
  /\ req[s].pc = "check" /\ req[s].op = "update"
  /\ LET r == req[s]
         targetUser == FindById(r.target)
     IN  IF ~targetUser.exists
         THEN Respond(s, r, 404, "User not found")
         ELSE IF ~UpdatePermitted(r.role, targetUser.role)
         THEN Respond(s, r, 403, "Access denied")
         ELSE Continue(s, [r EXCEPT !.pc = "write"])
  /\ UNCHANGED <<users, started, authIn, authOut, tokens, nextId, listing, logs>>

\* updateUser: findByIdAndUpdate(userId, { $set: updates })
UpdateWrite(s) ==
  /\ req[s].pc = "write" /\ req[s].op = "update"
  /\ LET r == req[s]
     IN  IF users[r.target].exists
         THEN /\ users' = [users EXCEPT ![r.target] = ApplyUpdates(@, r.updates)]
              /\ Respond(s, [r EXCEPT !.applied = TRUE], 200, "User updated successfully")
         ELSE /\ UNCHANGED users
              /\ Respond(s, r, 404, "User not found")
  /\ UNCHANGED <<started, authIn, authOut, tokens, nextId, listing, logs>>

\* deleteUser: findById and the role checks
DeleteCheck(s) ==
  /\ req[s].pc = "check" /\ req[s].op = "delete"
  /\ LET r == req[s]
         targetUser == FindById(r.target)
     IN  IF ~targetUser.exists
         THEN Respond(s, r, 404, "User not found")
         ELSE IF ~DeletePermitted(r.role, targetUser.role)
         THEN Respond(s, r, 403, "Access denied")
         ELSE Continue(s, [r EXCEPT !.pc = "write"])
  /\ UNCHANGED <<users, started, authIn, authOut, tokens, nextId, listing, logs>>

\* deleteUser: findByIdAndDelete(userId)
DeleteWrite(s) ==
  /\ req[s].pc = "write" /\ req[s].op = "delete"
  /\ LET r == req[s]
     IN  /\ users' = [users EXCEPT ![r.target] = NullUser]
         /\ Respond(s, [r EXCEPT !.applied = users[r.target].exists], 200, "User deleted successfully")
  /\ UNCHANGED <<started, authIn, authOut, tokens, nextId, listing, logs>>

\* transferCredit: the controller's amount validation and findById(userId)
TransferFindTarget(s) ==
  /\ req[s].pc = "check" /\ req[s].op = "transfer"
  /\ LET r == req[s]
         targetUser == FindById(r.target)
     IN  IF InvalidAmount(r.amount)
         THEN Respond(s, r, 400, "Invalid amount provided")
         ELSE IF ~targetUser.exists
         THEN Respond(s, r, 404, "User not found")
         ELSE Continue(s, [r EXCEPT !.pc = "actor", !.tRole = targetUser.role])
  /\ UNCHANGED <<users, started, authIn, authOut, tokens, nextId, listing, logs>>

\* a faulty variant of transferCredit's checks: the debit is written before
\* the role checks
TransferCheckDebitFirst(s) ==
  /\ req[s].pc = "actor" /\ req[s].op = "transfer"
  /\ LET r == req[s]
         currentUserDoc == FindById(r.actor)
     IN  IF ~currentUserDoc.exists
         THEN /\ Respond(s, r, 404, "Current user not found")
              /\ UNCHANGED users
         ELSE IF InsufficientCredit(currentUserDoc.creditBalance, r.amount)
         THEN /\ Respond(s, r, 400, "Insufficient credit balance")
              /\ UNCHANGED users
         ELSE /\ users' = [users EXCEPT ![r.actor] = IncBalance(@, 0 - r.amount.val)]
              /\ IF ~TransferPermitted(r.role, r.tRole)
                 THEN Respond(s, [r EXCEPT !.debited = TRUE], 403, "Access denied")
                 ELSE Continue(s, [r EXCEPT !.pc = "write", !.debited = TRUE])
  /\ UNCHANGED <<started, authIn, authOut, tokens, nextId, listing, logs>>

\* a faulty variant of transferCredit's checks: the role checks come before
\* the balance check
TransferCheckRoleFirst(s) ==
  /\ req[s].pc = "actor" /\ req[s].op = "transfer"
  /\ LET r == req[s]
         currentUserDoc == FindById(r.actor)
     IN  IF ~currentUserDoc.exists
         THEN Respond(s, r, 404, "Current user not found")
         ELSE IF ~TransferPermitted(r.role, r.tRole)
         THEN Respond(s, r, 403, "Access denied")
         ELSE IF InsufficientCredit(currentUserDoc.creditBalance, r.amount)
         THEN Respond(s, r, 400, "Insufficient credit balance")
         ELSE Continue(s, [r EXCEPT !.pc = "debit"])
  /\ UNCHANGED <<users, started, authIn, authOut, tokens, nextId, listing, logs>>

\* transferCredit: findById(currentUser._id), the balance check and the
\* role checks
TransferCheck(s) ==
  /\ req[s].pc = "actor" /\ req[s].op = "transfer"
  /\ LET r == req[s]
         currentUserDoc == FindById(r.actor)
     IN  IF ~currentUserDoc.exists
         THEN Respond(s, r, 404, "Current user not found")
         ELSE IF InsufficientCredit(currentUserDoc.creditBalance, r.amount)
         THEN Respond(s, r, 400, "Insufficient credit balance")
         ELSE IF ~TransferPermitted(r.role, r.tRole)
         THEN Respond(s, r, 403, "Access denied")
         ELSE Continue(s, [r EXCEPT !.pc = "debit"])
  /\ UNCHANGED <<users, started, authIn, authOut, tokens, nextId, listing, logs>>

\* transferCredit: findByIdAndUpdate(currentUser._id, { $inc: -amount }),
\* which changes nothing when the document is gone
TransferDebit(s) ==
  /\ req[s].pc = "debit" /\ req[s].op = "transfer"
  /\ LET r == req[s]
     IN  /\ users' = IF users[r.actor].exists
                     THEN [users EXCEPT ![r.actor] = IncBalance(@, 0 - r.amount.val)]
                     ELSE users
         /\ Continue(s, [r EXCEPT !.pc = "write", !.debited = users[r.actor].exists])
  /\ UNCHANGED <<started, authIn, authOut, tokens, nextId, listing, logs>>

\* transferCredit: findByIdAndUpdate(userId, { $inc: amount }); a null result
\* is returned as it is and the controller answers 200
TransferCredit(s) ==
  /\ req[s].pc = "write" /\ req[s].op = "transfer"
  /\ LET r == req[s]
     IN  /\ users' = IF users[r.target].exists
                     THEN [users EXCEPT ![r.target] = IncBalance(@, r.amount.val)]
                     ELSE users
         /\ Respond(s, [r EXCEPT !.applied = users[r.target].exists], 200,
                    "Credit transferred successfully")
  /\ UNCHANGED <<started, authIn, authOut, tokens, nextId, listing, logs>>

\* adjustCredit: the controller's amount validation, findById and the role
\* checks
AdjustCheck(s) ==
  /\ req[s].pc = "check" /\ req[s].op = "adjust"
  /\ LET r == req[s]
         targetUser == FindById(r.target)
     IN  IF InvalidAmount(r.amount)
         THEN Respond(s, r, 400, "Invalid amount provided")
         ELSE IF ~targetUser.exists
         THEN Respond(s, r, 404, "User not found")
         ELSE IF ~AdjustPermitted(r.role, targetUser.role)
         THEN Respond(s, r, 403, "Access denied")
         ELSE Continue(s, [r EXCEPT !.pc = "write"])
  /\ UNCHANGED <<users, started, authIn, authOut, tokens, nextId, listing, logs>>

\* a faulty variant of adjustCredit's write: the amount is taken from the
\* actor as a transfer takes it
AdjustWriteDebitsActor(s) ==
  /\ req[s].pc = "write" /\ req[s].op = "adjust"
  /\ LET r == req[s]
         credited == IF users[r.target].exists
                     THEN [users EXCEPT ![r.target] = IncBalance(@, r.amount.val)]
                     ELSE users
     IN  /\ users' = [credited EXCEPT ![r.actor] = IncBalance(@, 0 - r.amount.val)]
         /\ Respond(s, [r EXCEPT !.applied = users[r.target].exists], 200,
                    "Credit adjusted successfully")
  /\ UNCHANGED <<started, authIn, authOut, tokens, nextId, listing, logs>>

\* adjustCredit: findByIdAndUpdate(userId, { $inc: amount })
AdjustWrite(s) ==
  /\ req[s].pc = "write" /\ req[s].op = "adjust"
  /\ LET r == req[s]
     IN  /\ users' = IF users[r.target].exists
                     THEN [users EXCEPT ![r.target] = IncBalance(@, r.amount.val)]
                     ELSE users
         /\ Respond(s, [r EXCEPT !.applied = users[r.target].exists], 200,
                    "Credit adjusted successfully")
  /\ UNCHANGED <<started, authIn, authOut, tokens, nextId, listing, logs>>

\* UserService.getUserById as the ban and unban controllers call it
GetUserById(s) ==
  LET r == req[s]
      targetUser == FindById(r.target)
  IN  IF ~targetUser.exists
      THEN Respond(s, r, 404, "User not found")
      ELSE IF ~CanView(r.role, r.actor, targetUser)
      THEN Respond(s, r, 403, "Access denied")
      ELSE Continue(s, [r EXCEPT !.pc = "check"])

\* controller banUser up to the return of getUserById
BanView(s) ==
  /\ req[s].pc = "view" /\ req[s].op = "ban"
  /\ GetUserById(s)
  /\ UNCHANGED <<users, started, authIn, authOut, tokens, nextId, listing, logs>>

\* banUser: findById, the role checks and the already-banned check
BanCheck(s) ==
  /\ req[s].pc = "check" /\ req[s].op = "ban"
  /\ LET r == req[s]
         targetUser == FindById(r.target)
     IN  IF ~targetUser.exists
         THEN Respond(s, r, 404, "User not found")
         ELSE IF ~BanPermitted(r.role, targetUser.role)
         THEN Respond(s, r, 403, "Access denied")
         ELSE IF targetUser.isBanned
         THEN Respond(s, r, 400, "User already banned")
         ELSE Continue(s, [r EXCEPT !.pc = "write"])
  /\ UNCHANGED <<users, started, authIn, authOut, tokens, nextId, listing, logs>>

\* banUser: findByIdAndUpdate(userId, { $set: {isBanned, isActive, isOnline} })
BanWrite(s) ==
  /\ req[s].pc = "write" /\ req[s].op = "ban"
  /\ LET r == req[s]
     IN  IF users[r.target].exists
         THEN /\ users' = [users EXCEPT ![r.target] = BanSet(@)]
              /\ Respond(s, [r EXCEPT !.applied = TRUE], 200, "User banned successfully")
         ELSE /\ UNCHANGED users
              /\ Respond(s, r, 500, "Failed to ban user")
  /\ UNCHANGED <<started, authIn, authOut, tokens, nextId, listing, logs>>

\* controller unBanUser up to the return of getUserById
UnbanView(s) ==
  /\ req[s].pc = "view" /\ req[s].op = "unban"
  /\ GetUserById(s)
  /\ UNCHANGED <<users, started, authIn, authOut, tokens, nextId, listing, logs>>

\* unbanUser: findById, the role checks and the not-banned check
UnbanCheck(s) ==
  /\ req[s].pc = "check" /\ req[s].op = "unban"
  /\ LET r == req[s]
         targetUser == FindById(r.target)
     IN  IF ~targetUser.exists
         THEN Respond(s, r, 404, "User not found")
         ELSE IF ~UnbanPermitted(r.role, targetUser.role)
         THEN Respond(s, r, 403, "Access denied")
         ELSE IF ~targetUser.isBanned
         THEN Respond(s, r, 400, "User is not banned")
         ELSE Continue(s, [r EXCEPT !.pc = "write"])
  /\ UNCHANGED <<users, started, authIn, authOut, tokens, nextId, listing, logs>>

\* unbanUser: findByIdAndUpdate(userId, { $set: {isBanned: false, isActive: true} })
UnbanWrite(s) ==
  /\ req[s].pc = "write" /\ req[s].op = "unban"
  /\ LET r == req[s]
     IN  IF users[r.target].exists
         THEN /\ users' = [users EXCEPT ![r.target] = UnbanSet(@)]
              /\ Respond(s, [r EXCEPT !.applied = TRUE], 200, "User unbanned successfully")
         ELSE /\ UNCHANGED users
              /\ Respond(s, r, 404, "User not found")
  /\ UNCHANGED <<started, authIn, authOut, tokens, nextId, listing, logs>>

\* ------------------------------------------------------------------------
\* Hierarchy listings (services/user.services.ts)
\* ------------------------------------------------------------------------

\* the value a listing is sorted by
CreatedAt(i) == users[i].createdAt

\* the ids User.find({ createdBy: { $in: creators }, role: role }) matches
Matching(creators, role) ==
  {i \in Ids : users[i].exists /\ users[i].createdBy \in creators /\ users[i].role = role}

\* a sequence of ids is in createdAt-descending order
Descending(ids) ==
  \A k \in 1 .. Len(ids) - 1 : CreatedAt(ids[k]) >= CreatedAt(ids[k + 1])

\* User.find(...).sort({ createdAt: -1 }): the matching documents in
\* createdAt-descending order; the store fixes no order among documents of
\* equal createdAt, so every such order is a possible answer
Find(creators, role) ==
  LET found == Matching(creators, role)
  IN  {ids \in [1 .. Cardinality(found) -> found] :
         /\ \A a, b \in DOMAIN ids : a # b => ids[a] # ids[b]
         /\ Descending(ids)}

\* one step of Array.prototype.sort with the comparator
\* (a, b) => b.createdAt - a.createdAt: x goes behind every element that is
\* not older than x, so elements of equal createdAt keep their order
InsertByCreatedAt(sorted, x) ==
  LET k == Cardinality({j \in 1 .. Len(sorted) : CreatedAt(sorted[j]) >= CreatedAt(x)})
  IN  SubSeq(sorted, 1, k) \o <<x>> \o SubSeq(sorted, k + 1, Len(sorted))

\* Array.prototype.sort with that comparator: a stable sort
RECURSIVE SortByCreatedAt(_)
SortByCreatedAt(ids) ==
  IF ids = <<>>
  THEN <<>>
  ELSE InsertByCreatedAt(SortByCreatedAt(SubSeq(ids, 1, Len(ids) - 1)), ids[Len(ids)])

\* the possible answers of the listing methods for the root account given
GetDistributorsUnderSuperDistributor(superDistributorId) ==
  Find({superDistributorId}, "distributor")

GetRetailersUnderSuperDistributor(superDistributorId) ==
  LET distributorIds == Matching({superDistributorId}, "distributor")
  IN  {SortByCreatedAt(directRetailers \o distributorRetailers) :
         directRetailers \in Find({superDistributorId}, "retailer"),
         distributorRetailers \in Find(distributorIds, "retailer")}

\* a faulty variant of getUsersUnderSuperDistributor: the users the super
\* distributor created itself are left out
GetUsersUnderSuperDistributorNoDirect(superDistributorId) ==
  LET distributorIds == Matching({superDistributorId}, "distributor")
      allRetailerIds == Matching({superDistributorId}, "retailer")
                          \cup Matching(distributorIds, "retailer")
  IN  {SortByCreatedAt(distributorUsers \o retailerUsers) :
         distributorUsers \in Find(distributorIds, "user"),
         retailerUsers \in Find(allRetailerIds, "user")}

GetUsersUnderSuperDistributor(superDistributorId) ==
  LET distributorIds == Matching({superDistributorId}, "distributor")
      allRetailerIds == Matching({superDistributorId}, "retailer")
                          \cup Matching(distributorIds, "retailer")
  IN  {SortByCreatedAt(directUsers \o distributorUsers \o retailerUsers) :
         directUsers \in Find({superDistributorId}, "user"),
         distributorUsers \in Find(distributorIds, "user"),
         retailerUsers \in Find(allRetailerIds, "user")}

GetRetailersUnderDistributor(distributorId) ==
  Find({distributorId}, "retailer")

GetUsersUnderDistributor(distributorId) ==
  LET retailerIds == Matching({distributorId}, "retailer")
  IN  {SortByCreatedAt(directUsers \o retailerUsers) :
         directUsers \in Find({distributorId}, "user"),
         retailerUsers \in Find(retailerIds, "user")}

GetUsersUnderRetailer(retailerId) ==
  Find({retailerId}, "user")

ListingMethods ==
  {"getDistributorsUnderSuperDistributor", "getRetailersUnderSuperDistributor",
   "getUsersUnderSuperDistributor", "getRetailersUnderDistributor",
   "getUsersUnderDistributor", "getUsersUnderRetailer"}

Listing(method, root) ==
  CASE method = "getDistributorsUnderSuperDistributor" -> GetDistributorsUnderSuperDistributor(root)
    [] method = "getRetailersUnderSuperDistributor" -> GetRetailersUnderSuperDistributor(root)
    [] method = "getUsersUnderSuperDistributor" -> GetUsersUnderSuperDistributor(root)
    [] method = "getRetailersUnderDistributor" -> GetRetailersUnderDistributor(root)
    [] method = "getUsersUnderDistributor" -> GetUsersUnderDistributor(root)
    [] OTHER -> GetUsersUnderRetailer(root)

\* the role of the accounts a method lists, and the role of the root the
\* controllers call it for
ListedRole(method) ==
  CASE method \in {"getDistributorsUnderSuperDistributor"} -> "distributor"
    [] method \in {"getRetailersUnderSuperDistributor", "getRetailersUnderDistributor"} -> "retailer"
    [] OTHER -> "user"

RootRole(method) ==
  CASE method \in {"getDistributorsUnderSuperDistributor", "getRetailersUnderSuperDistributor",
                   "getUsersUnderSuperDistributor"} -> "super_distributor"
    [] method \in {"getRetailersUnderDistributor", "getUsersUnderDistributor"} -> "distributor"
    [] OTHER -> "retailer"

\* the root account the listing methods are called for
ListRoots == {2}

\* the accounts below the root in the stores the listings are applied to
ListedIds == 3 .. 5

\* the stores the listings are applied to: createUser and updateUser can
\* give an account any role and any createdBy, the root's own id included,
\* and two accounts saved in the same millisecond have equal createdAt
ListInit ==
  /\ \E rootRole \in {"super_distributor", "distributor", "retailer"}, rootBy \in {1, 2},
        roles \in [ListedIds -> {"distributor", "retailer", "user"}],
        by \in [ListedIds -> 1 .. 5], tie \in BOOLEAN :
       users = [i \in Ids |->
                  CASE i = 1 -> NewUser("admin", 1, 0, FALSE, i)
                    [] i \in ListRoots -> NewUser(rootRole, rootBy, 0, FALSE, i)
                    [] i \in ListedIds ->
                         NewUser(roles[i], by[i], 0, FALSE, IF tie /\ i = 5 THEN i - 1 ELSE i)
                    [] OTHER -> NullUser]
  /\ req = [s \in Slots |-> Idle]
  /\ started = 0
  /\ authIn = [op |-> "none", actorRole |-> "", targetRole |-> ""]
  /\ authOut = 0
  /\ tokens = {}
  /\ nextId = 6
  /\ listing = NoListing
  /\ logs = <<>>

\* a listing method is called for the root and answers
List ==
  /\ \E method \in ListingMethods, root \in ListRoots :
       \E ids \in Listing(method, root) :
         listing' = [method |-> method, root |-> root, ids |-> ids]
  /\ UNCHANGED <<users, req, started, authIn, authOut, tokens, nextId, logs>>

ListNext == List

SpecList == ListInit /\ [][ListNext]_vars

\* ------------------------------------------------------------------------
\* Hierarchy statistics (UserService: getSuperDistributorStats, getDistributorStats)
\* ------------------------------------------------------------------------

\* an id as the store holds it (createdBy and _id are ObjectIds) and as
\* authenticate hands it on (req.user._id = user._id.toString())
ObjectId(i) == [type |-> "ObjectId", id |-> i]
IdString(i) == [type |-> "string", id |-> i]

\* User.countDocuments({ createdBy: { $in: creators }, role: role }): the
\* query casts its values to the schema's type
CountDocuments(creators, role) == Cardinality(Matching(creators, role))

\* one branch of the $or of an aggregate $match stage, {createdBy: value,
\* role: role} or {createdBy: {$in: values}, role: role}: a pipeline goes to
\* the database as written, so a string never equals a stored ObjectId
MatchStage(values, role) ==
  {i \in Ids : users[i].exists /\ ObjectId(users[i].createdBy) \in values /\ users[i].role = role}

\* { $group: { _id: null, total: { $sum: '$creditBalance' } } }, and
\* totalPointsResult[0]?.total || 0
RECURSIVE GroupSum(_)
GroupSum(ids) ==
  IF ids = {} THEN 0
  ELSE LET i == CHOOSE x \in ids : TRUE
       IN  users[i].creditBalance + GroupSum(ids \ {i})

GetSuperDistributorStats(superDistributorId) ==
  LET distributorIds == Matching({superDistributorId}, "distributor")
      allRetailerIds == Matching({superDistributorId}, "retailer")
                          \cup Matching(distributorIds, "retailer")
      retailersCount == CountDocuments({superDistributorId}, "retailer")
                          + CountDocuments(distributorIds, "retailer")
      usersCount == CountDocuments({superDistributorId}, "user")
                      + CountDocuments(distributorIds, "user")
                      + CountDocuments(allRetailerIds, "user")
      self == {IdString(superDistributorId)}
      viaDistributors == {ObjectId(d) : d \in distributorIds}
      viaRetailers == {ObjectId(r) : r \in allRetailerIds}
      totalPoints == GroupSum(MatchStage(self, "distributor")
                              \cup MatchStage(self, "retailer")
                              \cup MatchStage(viaDistributors, "retailer")
                              \cup MatchStage(self, "user")
                              \cup MatchStage(viaDistributors, "user")
                              \cup MatchStage(viaRetailers, "user"))
  IN  [totalDistributors |-> CountDocuments({superDistributorId}, "distributor"),
       totalRetailers |-> retailersCount,
       totalUsers |-> usersCount,
       totalPoints |-> totalPoints]

GetDistributorStats(distributorId) ==
  LET retailerIds == Matching({distributorId}, "retailer")
      usersCount == CountDocuments({distributorId}, "user")
                      + CountDocuments(retailerIds, "user")
      totalPoints == GroupSum(MatchStage({IdString(distributorId)}, "retailer")
                              \cup MatchStage({IdString(distributorId)}, "user")
                              \cup MatchStage({ObjectId(r) : r \in retailerIds}, "user"))
  IN  [totalDistributors |-> 0,
       totalRetailers |-> CountDocuments({distributorId}, "retailer"),
       totalUsers |-> usersCount,
       totalPoints |-> totalPoints]

\* the balances of the accounts below the root in the stores of the statistics
StatsBalances == {0, 1, 2}

\* no statistics have been answered yet
NoStats ==
  [method |-> "none", root |-> 0, ids |-> <<>>,
   stats |-> [totalDistributors |-> 0, totalRetailers |-> 0, totalUsers |-> 0,
              totalPoints |-> 0]]

\* the stores the statistics are computed on: a super distributor or a
\* distributor as root, created by the admin, and below it accounts of the
\* lower roles created by the root or by each other
StatsInit ==
  /\ \E rootRole \in {"super_distributor", "distributor"},
        roles \in [ListedIds -> {"distributor", "retailer", "user"}],
        by \in [ListedIds -> 2 .. 4],
        bal \in [ListedIds -> StatsBalances] :
       users = [i \in Ids |->
                  CASE i = 1 -> NewUser("admin", 1, 0, FALSE, i)
                    [] i \in ListRoots -> NewUser(rootRole, 1, 1, FALSE, i)
                    [] i \in ListedIds -> NewUser(roles[i], by[i], bal[i], FALSE, i)
                    [] OTHER -> NullUser]
  /\ req = [s \in Slots |-> Idle]
  /\ started = 0
  /\ authIn = [op |-> "none", actorRole |-> "", targetRole |-> ""]
  /\ authOut = 0
  /\ tokens = {}
  /\ nextId = 6
  /\ listing = NoStats
  /\ logs = <<>>

\* controller getStats for the root: the method chosen by req.user.role is
\* called with req.user._id and answers
GetStats ==
  /\ \E root \in ListRoots :
       listing' = IF users[root].role = "super_distributor"
                  THEN [method |-> "getSuperDistributorStats", root |-> root, ids |-> <<>>,
                        stats |-> GetSuperDistributorStats(root)]
                  ELSE [method |-> "getDistributorStats", root |-> root, ids |-> <<>>,
                        stats |-> GetDistributorStats(root)]
  /\ UNCHANGED <<users, req, started, authIn, authOut, tokens, nextId, logs>>

StatsNext == GetStats

SpecStats == StatsInit /\ [][StatsNext]_vars

\* ------------------------------------------------------------------------
\* Account creation and deletion
\* ------------------------------------------------------------------------

\* the role and the createdBy of the bodies of POST /users (0: the body has
\* no createdBy), and the accounts DELETE /user/:id addresses
CreateRoles == Roles \cup {UnknownRole}
CreatedByInputs == {0, 4}
HierTargetIds == {2, 4}

\* an HTTP request arrives: POST /users or DELETE /user/:id with an access
\* token; the username of every POST /users is one no account has
HierReceive(s) ==
  /\ Free(s)
  /\ \A t \in Slots : t < s => ~Free(t)
  /\ started < MaxRequests
  /\ \E tok \in {k \in tokens : k.kind = "access"}, op \in {"create", "delete"} :
       IF op = "create"
       THEN \E role \in CreateRoles, by \in CreatedByInputs :
              Continue(s, [Idle EXCEPT !.pc = "auth", !.op = op, !.actor = tok.userId,
                                        !.role = tok.role,
                                        !.updates = [field |-> "createUser", num |-> by,
                                                     bool |-> FALSE, str |-> role]])
       ELSE \E t \in HierTargetIds :
              Continue(s, [Idle EXCEPT !.pc = "auth", !.op = op, !.actor = tok.userId,
                                        !.role = tok.role, !.target = t])
  /\ started' = started + 1
  /\ UNCHANGED <<users, authIn, authOut, tokens, nextId, listing, logs>>

\* controller createUser: the role must be one of the five roles; the new
\* document takes its role from the body and its createdBy from the body or,
\* when the body has none, from req.user; no check involves the role of the
\* actor
CreateUser(s) ==
  /\ req[s].pc = "check" /\ req[s].op = "create"
  /\ nextId \in Ids
  /\ LET r == req[s]
         role == r.updates.str
         createdBy == IF r.updates.num # 0 THEN r.updates.num ELSE r.actor
     IN  IF role \notin Roles
         THEN /\ Respond(s, r, 400, "Invalid role specified")
              /\ UNCHANGED <<users, nextId>>
         ELSE /\ users' = [users EXCEPT ![nextId] = NewUser(role, createdBy, 0, FALSE, nextId)]
              /\ nextId' = nextId + 1
              /\ Respond(s, [r EXCEPT !.target = nextId, !.applied = TRUE], 201,
                         "User created successfully")
  /\ UNCHANGED <<started, authIn, authOut, tokens, listing, logs>>

HierInit ==
  /\ users = InitUsers
  /\ req = [s \in Slots |-> Idle]
  /\ started = 0
  /\ authIn = [op |-> "none", actorRole |-> "", targetRole |-> ""]
  /\ authOut = 0
  /\ tokens = {GenerateAccessToken(TokenOf(a)) : a \in ActorIds}
  /\ nextId = FirstFreeId
  /\ listing = NoListing
  /\ logs = <<>>

HierNext ==
  \E s \in Slots :
    \/ HierReceive(s)
    \/ Authenticate(s)
    \/ CreateUser(s)
    \/ DeleteCheck(s)
    \/ DeleteWrite(s)

SpecHier == HierInit /\ [][HierNext]_vars

\* ------------------------------------------------------------------------
\* Sessions: login, token refresh and the single-account read
\* ------------------------------------------------------------------------

\* the accounts that log in, the accounts addressed by :id, and the bodies
\* of PUT /user/:id in the session requests
SessionLoginIds == {2}
SessionTargetIds == {2, 4}
SessionUpdateBodies ==
  { [field |-> "role", num |-> 0, bool |-> FALSE, str |-> "user"],
    [field |-> "isActive", num |-> 0, bool |-> FALSE, str |-> ""],
    [field |-> "isActive", num |-> 0, bool |-> TRUE, str |-> ""],
    [field |-> "creditBalance", num |-> 3, bool |-> FALSE, str |-> ""] }
SessionOps == {"view", "update", "delete", "ban", "unban"}

\* the tokens in circulation when the session requests start: the admin and
\* distributor 2 are logged in
SessionTokens ==
  {GenerateAccessToken(TokenOf(1)), GenerateAccessToken(TokenOf(2)),
   GenerateRefreshToken(TokenOf(2))}

\* an HTTP request arrives: POST /login with a username and a password
\* that is right or wrong, POST /refresh with a refresh token, or an
\* authenticated request with an access token
SessionReceive(s) ==
  /\ Free(s)
  /\ \A t \in Slots : t < s => ~Free(t)
  /\ started < MaxRequests
  /\ \E kind \in {"login", "logout", "refresh", "authenticated"} :
       CASE kind = "login" ->
              \E t \in SessionLoginIds, pw \in BOOLEAN :
                Continue(s, [Idle EXCEPT !.pc = "login", !.op = "login", !.target = t,
                                          !.password = pw])
         [] kind = "logout" ->
              \E tok \in {k \in tokens : k.kind = "access"} :
                Continue(s, [Idle EXCEPT !.pc = "auth", !.op = "logout",
                                          !.actor = tok.userId, !.role = tok.role,
                                          !.target = tok.userId])
         [] kind = "refresh" ->
              \E tok \in {k \in tokens : k.kind = "refresh"} :
                Continue(s, [Idle EXCEPT !.pc = "refresh", !.op = "refresh",
                                          !.actor = tok.userId])
         [] OTHER ->
              \E tok \in {k \in tokens : k.kind = "access"}, op \in SessionOps,
                 t \in SessionTargetIds :
                \E upd \in (IF op = "update" THEN SessionUpdateBodies ELSE {NoUpdates}) :
                  Continue(s, [Idle EXCEPT !.pc = "auth", !.op = op, !.actor = tok.userId,
                                            !.role = tok.role, !.target = t,
                                            !.updates = upd])
  /\ started' = started + 1
  /\ UNCHANGED <<users, authIn, authOut, tokens, nextId, listing, logs>>

\* an account that authenticate, login and refreshToken turn away
Blocked(doc) == ~doc.exists \/ ~doc.isActive \/ doc.isBanned

\* controller login up to comparePassword: findOne by username, the
\* isActive and isBanned checks, the password check
Login(s) ==
  /\ req[s].pc = "login"
  /\ LET r == req[s]
         user == FindById(r.target)
     IN  IF ~user.exists
         THEN Respond(s, r, 401, "Invalid credentials")
         ELSE IF ~user.isActive
         THEN Respond(s, r, 401, "Account is deactivated")
         ELSE IF user.isBanned
         THEN Respond(s, r, 401, "Account is banned")
         ELSE IF ~r.password
         THEN Respond(s, r, 401, "Invalid credentials")
         ELSE Continue(s, [r EXCEPT !.pc = "write", !.tRole = user.role])
  /\ UNCHANGED <<users, started, authIn, authOut, tokens, nextId, listing, logs>>

\* controller login from findByIdAndUpdate on: isOnline is set, the token
\* pair is signed with the role of the document login read
LoginWrite(s) ==
  /\ req[s].pc = "write" /\ req[s].op = "login"
  /\ LET r == req[s]
         tokenPayload == [userId |-> r.target, role |-> r.tRole]
     IN  /\ users' = IF users[r.target].exists
                     THEN [users EXCEPT ![r.target].isOnline = TRUE]
                     ELSE users
         /\ tokens' = tokens \cup {GenerateAccessToken(tokenPayload),
                                   GenerateRefreshToken(tokenPayload)}
         /\ Respond(s, [r EXCEPT !.applied = TRUE], 200, "Login successful")
  /\ UNCHANGED <<started, authIn, authOut, nextId, listing, logs>>

\* controller logout: findByIdAndUpdate(req.user._id, {isOnline: false})
Logout(s) ==
  /\ req[s].pc = "check" /\ req[s].op = "logout"
  /\ LET r == req[s]
     IN  /\ users' = IF users[r.actor].exists
                     THEN [users EXCEPT ![r.actor].isOnline = FALSE]
                     ELSE users
         /\ Respond(s, [r EXCEPT !.applied = TRUE], 200, "Logout successful")
  /\ UNCHANGED <<started, authIn, authOut, tokens, nextId, listing, logs>>

\* controller refreshToken: the account of the refresh token must exist,
\* be active and not banned; the new access token carries the stored role
RefreshToken(s) ==
  /\ req[s].pc = "refresh"
  /\ LET r == req[s]
         user == FindById(r.actor)
     IN  IF ~user.exists
         THEN /\ Respond(s, r, 401, "User not found")
              /\ UNCHANGED tokens
         ELSE IF ~user.isActive \/ user.isBanned
         THEN /\ Respond(s, r, 401, "Account is inactive or banned")
              /\ UNCHANGED tokens
         ELSE /\ tokens' = tokens \cup
                             {GenerateAccessToken([userId |-> r.actor, role |-> user.role])}
              /\ Respond(s, [r EXCEPT !.applied = TRUE], 200, "Token refreshed successfully")
  /\ UNCHANGED <<users, started, authIn, authOut, nextId, listing, logs>>

\* controller getUserById: UserService.getUserById and the 200 answer
ViewUser(s) ==
  /\ req[s].pc = "view" /\ req[s].op = "view"
  /\ LET r == req[s]
         targetUser == FindById(r.target)
     IN  IF ~targetUser.exists
         THEN Respond(s, r, 404, "User not found")
         ELSE IF ~CanView(r.role, r.actor, targetUser)
         THEN Respond(s, r, 403, "Access denied")
         ELSE Respond(s, r, 200, "")
  /\ UNCHANGED <<users, started, authIn, authOut, tokens, nextId, listing, logs>>

SessionInit ==
  /\ users = InitUsers
  /\ req = [s \in Slots |-> Idle]
  /\ started = 0
  /\ authIn = [op |-> "none", actorRole |-> "", targetRole |-> ""]
  /\ authOut = 0
  /\ tokens = SessionTokens
  /\ nextId = FirstFreeId
  /\ listing = NoListing
  /\ logs = <<>>

SessionNext ==
  \E s \in Slots :
    \/ SessionReceive(s)
    \/ Authenticate(s)
    \/ Login(s)
    \/ LoginWrite(s)
    \/ Logout(s)
    \/ RefreshToken(s)
    \/ ViewUser(s)
    \/ UpdateCheck(s)
    \/ UpdateWrite(s)
    \/ DeleteCheck(s)
    \/ DeleteWrite(s)
    \/ BanView(s)
    \/ BanCheck(s)
    \/ BanWrite(s)
    \/ UnbanView(s)
    \/ UnbanCheck(s)
    \/ UnbanWrite(s)

SpecSession == SessionInit /\ [][SessionNext]_vars

\* ------------------------------------------------------------------------
\* The list endpoints of the user router
\* ------------------------------------------------------------------------

\* GET /distributors, /retailers, /users and the my-* routes
ListEndpoints ==
  {"distributors", "retailers", "users", "my-distributors", "my-retailers", "my-users",
   "my-retailers-as-distributor", "my-users-as-distributor", "my-users-as-retailer"}

\* UserService.getAllDistributors, getAllRetailers, getAllUsers:
\* User.find({ role }).sort({ createdAt: -1 })
GetAll(role) == Find({users[i].createdBy : i \in Ids}, role)

\* the controllers of the list endpoints: the possible answers to an actor
\* with req.user._id = userId and req.user.role = role, 403 or 200 with a list
ListEndpoint(endpoint, userId, role) ==
  LET Ok(lists) == {[status |-> 200, ids |-> ids] : ids \in lists}
      Denied == {[status |-> 403, ids |-> <<>>]}
  IN  CASE endpoint = "distributors" ->
             IF role = "admin" THEN Ok(GetAll("distributor"))
             ELSE IF role = "super_distributor"
                  THEN Ok(GetDistributorsUnderSuperDistributor(userId))
             ELSE Denied
        [] endpoint = "retailers" ->
             IF role = "admin" THEN Ok(GetAll("retailer"))
             ELSE IF role = "super_distributor"
                  THEN Ok(GetRetailersUnderSuperDistributor(userId))
             ELSE IF role = "distributor" THEN Ok(GetRetailersUnderDistributor(userId))
             ELSE Denied
        [] endpoint = "users" ->
             IF role = "admin" THEN Ok(GetAll("user"))
             ELSE IF role = "super_distributor" THEN Ok(GetUsersUnderSuperDistributor(userId))
             ELSE IF role = "distributor" THEN Ok(GetUsersUnderDistributor(userId))
             ELSE IF role = "retailer" THEN Ok(GetUsersUnderRetailer(userId))
             ELSE Denied
        [] endpoint = "my-distributors" ->
             IF role # "super_distributor" THEN Denied
             ELSE Ok(GetDistributorsUnderSuperDistributor(userId))
        [] endpoint = "my-retailers" ->
             IF role # "super_distributor" THEN Denied
             ELSE Ok(GetRetailersUnderSuperDistributor(userId))
        [] endpoint = "my-users" ->
             IF role # "super_distributor" THEN Denied
             ELSE Ok(GetUsersUnderSuperDistributor(userId))
        [] endpoint = "my-retailers-as-distributor" ->
             IF role # "distributor" THEN Denied
             ELSE Ok(GetRetailersUnderDistributor(userId))
        [] endpoint = "my-users-as-distributor" ->
             IF role # "distributor" THEN Denied
             ELSE Ok(GetUsersUnderDistributor(userId))
        [] OTHER ->
             IF role # "retailer" THEN Denied
             ELSE Ok(GetUsersUnderRetailer(userId))

\* the role of the accounts an endpoint lists
RequestedRole(endpoint) ==
  CASE endpoint \in {"distributors", "my-distributors"} -> "distributor"
    [] endpoint \in {"retailers", "my-retailers", "my-retailers-as-distributor"} -> "retailer"
    [] OTHER -> "user"

\* the accounts whose role is changed, and the roles PUT /user/:id gives them
EndpointTargetIds == {2, 3}
EndpointUpdateBodies ==
  { [field |-> "role", num |-> 0, bool |-> FALSE, str |-> role] :
      role \in {"retailer", "user"} }

\* an HTTP request arrives with an access token: a list request or PUT /user/:id
EndpointReceive(s) ==
  /\ Free(s)
  /\ \A t \in Slots : t < s => ~Free(t)
  /\ started < MaxRequests
  /\ \E tok \in {k \in tokens : k.kind = "access"} :
       \/ \E endpoint \in ListEndpoints :
            Continue(s, [Idle EXCEPT !.pc = "auth", !.op = endpoint, !.actor = tok.userId,
                                      !.role = tok.role, !.target = tok.userId])
       \/ \E t \in EndpointTargetIds, upd \in EndpointUpdateBodies :
            Continue(s, [Idle EXCEPT !.pc = "auth", !.op = "update", !.actor = tok.userId,
                                      !.role = tok.role, !.target = t, !.updates = upd])
  /\ started' = started + 1
  /\ UNCHANGED <<users, authIn, authOut, tokens, nextId, listing, logs>>

\* a list controller answers the request of slot s
ListUsers(s) ==
  /\ req[s].pc = "check" /\ req[s].op \in ListEndpoints
  /\ LET r == req[s]
     IN  \E answer \in ListEndpoint(r.op, r.actor, r.role) :
           IF answer.status = 403
           THEN /\ Respond(s, r, 403, "Access denied")
                /\ listing' = listing
           ELSE /\ Respond(s, r, 200, "")
                /\ listing' = [method |-> r.op, root |-> r.actor, ids |-> answer.ids]
  /\ UNCHANGED <<users, started, authIn, authOut, tokens, nextId, logs>>

\* the stores and tokens the list requests start from: account 2 has any
\* role below admin and holds the access token of its last login, it created
\* account 3, account 4 was created by 2 or by 3, and account 5 by the admin
EndpointInit ==
  /\ \E role2 \in {"super_distributor", "distributor", "retailer", "user"},
        role3 \in {"distributor", "retailer"}, by4 \in {2, 3} :
       /\ users = [i \in Ids |->
                     CASE i = 1 -> NewUser("admin", 1, 1, TRUE, i)
                       [] i = 2 -> NewUser(role2, 1, 1, TRUE, i)
                       [] i = 3 -> NewUser(role3, 2, 0, FALSE, i)
                       [] i = 4 -> NewUser("user", by4, 0, FALSE, i)
                       [] i = 5 -> NewUser("user", 1, 0, FALSE, i)
                       [] OTHER -> NullUser]
       /\ tokens = {GenerateAccessToken([userId |-> 1, role |-> "admin"]),
                    GenerateAccessToken([userId |-> 2, role |-> role2])}
  /\ req = [s \in Slots |-> Idle]
  /\ started = 0
  /\ authIn = [op |-> "none", actorRole |-> "", targetRole |-> ""]
  /\ authOut = 0
  /\ nextId = 6
  /\ listing = NoListing
  /\ logs = <<>>

EndpointNext ==
  \E s \in Slots :
    \/ EndpointReceive(s)
    \/ Authenticate(s)
    \/ UpdateCheck(s)
    \/ UpdateWrite(s)
    \/ ListUsers(s)

SpecEndpoint == EndpointInit /\ [][EndpointNext]_vars

\* ------------------------------------------------------------------------
\* The audit log: middleware logAction on the user router
\* ------------------------------------------------------------------------

\* determineActionType: the action kind of a request, "" for null (no entry)
DetermineActionType(op) ==
  CASE op = "create"   -> "CREATE_USER"
    [] op = "logout"   -> "LOGOUT"
    [] op = "update"   -> "UPDATE_USER"
    [] op = "delete"   -> "DELETE_USER"
    [] op = "ban"      -> "BAN_USER"
    [] op = "unban"    -> "UNBAN_USER"
    [] op = "transfer" -> "CREDIT_TRANSFER"
    [] op = "adjust"   -> "CREDIT_ADJUSTMENT"
    [] OTHER           -> ""

\* the status of an entry, from the status code of the response
LogStatus(statusCode) ==
  IF statusCode >= 200 /\ statusCode < 400 THEN "SUCCESS" ELSE "FAILED"

\* LogService.createLog: the document handed to log.save()
CreateLog(request, userId, action, statusCode, status, resourceId) ==
  [request |-> request, userId |-> userId, action |-> action,
   statusCode |-> statusCode, status |-> status, resourceId |-> resourceId]

\* the requests of the audited routes: POST /user/:id/transfer-credit,
\* POST /user/:id/adjust-credit and GET /user/:id
AuditOps == {"transfer", "adjust", "view"}
AuditAmounts == {[isNum |-> TRUE, val |-> v] : v \in {0, 1}}
AuditActorIds == {1, 4}
AuditTargetIds == {3, 5}

\* the finish handler of slot s has nothing left to do: the request was
\* turned away by authenticate, before logAction, or the handler has run
Logged(s) == req[s].pc = "done" /\ (~req[s].authenticated \/ req[s].logged # "no")

AuditReceive(s) ==
  /\ req[s].pc = "idle" \/ Logged(s)
  /\ started < MaxRequests
  /\ \E op \in AuditOps, a \in {k \in AuditActorIds : GenerateAccessToken(TokenOf(k)) \in tokens},
        t \in AuditTargetIds :
       \E amt \in (IF op = "view" THEN {NotANumber} ELSE AuditAmounts) :
         req' = [req EXCEPT ![s] =
                   [Idle EXCEPT !.pc = "auth", !.op = op, !.actor = TokenOf(a).userId,
                                !.role = TokenOf(a).role, !.target = t,
                                !.amount = amt, !.id = started + 1]]
  /\ started' = started + 1
  /\ UNCHANGED <<users, authIn, authOut, tokens, nextId, listing, logs>>

\* a faulty variant of the finish handler: every entry says SUCCESS
LogActionAlwaysSuccess(s) ==
  /\ req[s].pc = "done" /\ req[s].authenticated /\ req[s].logged = "no"
  /\ LET r == req[s]
         action == DetermineActionType(r.op)
     IN  IF action = ""
         THEN /\ Continue(s, [r EXCEPT !.logged = "skipped"])
              /\ logs' = logs
         ELSE \/ /\ logs' = Append(logs, CreateLog(r.id, r.actor, action, r.status,
                                                   "SUCCESS", r.target))
                 /\ Continue(s, [r EXCEPT !.logged = "saved"])
              \/ /\ logs' = logs
                 /\ Continue(s, [r EXCEPT !.logged = "failed"])
  /\ UNCHANGED <<users, started, authIn, authOut, tokens, nextId, listing>>

\* a faulty variant of the finish handler: a failed log write turns the
\* request into a failure and takes its credit back
LogActionFailureRollsBack(s) ==
  /\ req[s].pc = "done" /\ req[s].authenticated /\ req[s].logged = "no"
  /\ LET r == req[s]
         action == DetermineActionType(r.op)
     IN  IF action = ""
         THEN /\ Continue(s, [r EXCEPT !.logged = "skipped"])
              /\ logs' = logs
              /\ users' = users
         ELSE \/ /\ logs' = Append(logs, CreateLog(r.id, r.actor, action, r.status,
                                                   LogStatus(r.status), r.target))
                 /\ Continue(s, [r EXCEPT !.logged = "saved"])
                 /\ users' = users
              \/ /\ logs' = logs
                 /\ Continue(s, [r EXCEPT !.logged = "failed", !.status = 500])
                 /\ users' = IF r.applied
                             THEN [users EXCEPT ![r.target] = IncBalance(@, 0 - r.amount.val)]
                             ELSE users
  /\ UNCHANGED <<started, authIn, authOut, tokens, nextId, listing>>

\* logAction's finish handler, after the response of slot s was sent:
\* no entry when determineActionType gives null; otherwise createLog is
\* started and not awaited, log.save() stores the entry or fails, and a
\* failure is only printed by console.error
LogAction(s) ==
  /\ req[s].pc = "done" /\ req[s].authenticated /\ req[s].logged = "no"
  /\ LET r == req[s]
         action == DetermineActionType(r.op)
     IN  IF action = ""
         THEN /\ Continue(s, [r EXCEPT !.logged = "skipped"])
              /\ logs' = logs
         ELSE \/ /\ logs' = Append(logs, CreateLog(r.id, r.actor, action, r.status,
                                                   LogStatus(r.status), r.target))
                 /\ Continue(s, [r EXCEPT !.logged = "saved"])
              \/ /\ logs' = logs
                 /\ Continue(s, [r EXCEPT !.logged = "failed"])
  /\ UNCHANGED <<users, started, authIn, authOut, tokens, nextId, listing>>

AuditInit ==
  /\ users = InitUsers
  /\ req = [s \in Slots |-> Idle]
  /\ started = 0
  /\ authIn = [op |-> "none", actorRole |-> "", targetRole |-> ""]
  /\ authOut = 0
  /\ tokens = {GenerateAccessToken(TokenOf(k)) : k \in AuditActorIds}
  /\ nextId = FirstFreeId
  /\ listing = NoListing
  /\ logs = <<>>

AuditNext ==
  \E s \in Slots :
    \/ AuditReceive(s)
    \/ Authenticate(s)
    \/ ViewUser(s)
    \/ TransferFindTarget(s)
    \/ TransferCheck(s)
    \/ TransferDebit(s)
    \/ TransferCredit(s)
    \/ AdjustCheck(s)
    \/ AdjustWrite(s)
    \/ LogAction(s)

SpecAudit == AuditInit /\ [][AuditNext]_vars

\* ------------------------------------------------------------------------
\* Specification of the request handlers
\* ------------------------------------------------------------------------

NoDecision == [op |-> "none", actorRole |-> "", targetRole |-> ""]

Init ==
  /\ users = InitUsers
  /\ req = [s \in Slots |-> Idle]
  /\ started = 0
  /\ authIn = NoDecision
  /\ authOut = 0
  /\ tokens = {GenerateAccessToken(TokenOf(a)) : a \in ActorIds}
  /\ nextId = FirstFreeId
  /\ listing = NoListing
  /\ logs = <<>>

Next ==
  \E s \in Slots :
    \/ Receive(s)
    \/ Authenticate(s)
    \/ UpdateCheck(s)
    \/ UpdateWrite(s)
    \/ DeleteCheck(s)
    \/ DeleteWrite(s)
    \/ TransferFindTarget(s)
    \/ TransferCheck(s)
    \/ TransferDebit(s)
    \/ TransferCredit(s)
    \/ AdjustCheck(s)
    \/ AdjustWrite(s)
    \/ BanView(s)
    \/ BanCheck(s)
    \/ BanWrite(s)
    \/ UnbanView(s)
    \/ UnbanCheck(s)
    \/ UnbanWrite(s)

Spec == Init /\ [][Next]_vars

\* ------------------------------------------------------------------------
\* Specification of the permission decision alone, over every role pair
\* ------------------------------------------------------------------------

AuthInit ==
  /\ users = InitUsers
  /\ req = [s \in Slots |-> Idle]
  /\ started = 0
  /\ authIn \in [op : Ops, actorRole : Roles \cup {UnknownRole}, targetRole : Roles]
  /\ authOut = 0
  /\ tokens = {}
  /\ nextId = FirstFreeId
  /\ listing = NoListing
  /\ logs = <<>>

\* the role checks of the service method of authIn.op run
Decide ==
  /\ authOut = 0
  /\ authOut' = IF Permitted(authIn.op, authIn.actorRole, authIn.targetRole) THEN 200 ELSE 403
  /\ UNCHANGED <<users, req, started, authIn, tokens, nextId, listing, logs>>

AuthNext == Decide

SpecAuth == AuthInit /\ [][AuthNext]_vars

TypeOK ==
  /\ started \in 0 .. MaxRequests
  /\ \A s \in Slots : req[s].pc \in {"idle", "auth", "login", "refresh", "view", "check", "actor", "debit",
                                    "write", "done"}
  /\ \A i \in Ids : users[i].exists \in BOOLEAN

\* ------------------------------------------------------------------------
\* Vocabulary of the properties
\* ------------------------------------------------------------------------

\* the rule table of the authorization engine: (actor role, target role)
RuleTable ==
  ({"admin"} \X Roles)
  \cup ({"super_distributor"} \X {"distributor", "retailer", "user"})
  \cup ({"distributor"} \X {"retailer", "user"})
  \cup ({"retailer"} \X {"user"})

ValidNumber(amount) == amount.isNum /\ amount.val # 0

\* the request of slot s takes a step / ends in this step
Steps(s) == req'[s] # req[s]
Ends(s) == req[s].pc # "done" /\ req'[s].pc = "done"

\* the request of slot s is at its lookup of the target account
AtTargetLookup(s) == req[s].pc \in {"check", "view"}

\* the accounts reachable from the accounts of set along at most n createdBy
\* edges downward, through existing accounts
RECURSIVE Below(_, _)
Below(set, n) ==
  IF n = 0
  THEN set
  ELSE Below(set \cup {i \in Ids : users[i].exists /\ users[i].createdBy \in set}, n - 1)

Descendants(root) == Below({root}, Cardinality(Ids)) \ {root}

\* the createdBy chain of account i reaches an admin within n links, every
\* link referring to an existing account
RECURSIVE ChainEndsAtAdmin(_, _)
ChainEndsAtAdmin(i, n) ==
  /\ i \in Ids
  /\ users[i].exists
  /\ \/ users[i].role = "admin"
     \/ n > 0 /\ ChainEndsAtAdmin(users[i].createdBy, n - 1)

\* ------------------------------------------------------------------------
\* C1 .. C10
\* ------------------------------------------------------------------------

\* C1: after any sequence of adjustCredit and transferCredit requests every
\* account's creditBalance is >= 0.
CE_C1_BalanceNonNegative ==
  \A i \in Ids : users[i].exists => users[i].creditBalance >= 0

\* C2: when the two requests in flight are transferCredit requests of the
\* same source account with positive amounts, the source's creditBalance
\* never becomes negative, whatever the interleaving.
CE_C2_ConcurrentTransfersNonNegative ==
  ( /\ started = 2
    /\ \A s \in Slots : req[s].op = "transfer" /\ req[s].amount.isNum /\ req[s].amount.val > 0
    /\ req[1].actor = req[2].actor )
  => users[req[1].actor].creditBalance >= 0

\* C3: a transferCredit that has ended has applied both the debit of the
\* actor and the credit of the target, or neither.
CE_C3_TransferAllOrNothing ==
  \A s \in Slots :
    (req[s].op = "transfer" /\ req[s].pc = "done") => (req[s].debited <=> req[s].applied)

\* C4: a transferCredit of amount a from A to T # A that answers 200 has
\* decreased A's creditBalance by exactly a and increased T's by exactly a,
\* and its writes change nothing else.
CE_C4_TransferMovesExactlyAmount ==
  [][\A s \in Slots :
       (req[s].op = "transfer" /\ req[s].target # req[s].actor) =>
         /\ (req[s].pc = "debit" /\ Steps(s)) =>
               users' = [users EXCEPT ![req[s].actor].creditBalance = @ - req[s].amount.val]
         /\ (req[s].pc = "write" /\ Steps(s) /\ req'[s].status = 200) =>
               /\ req[s].debited
               /\ users' = [users EXCEPT ![req[s].target].creditBalance = @ + req[s].amount.val]
    ]_vars

\* C5: a transfer-credit request whose amount is not a number or is not
\* strictly positive is rejected and changes no account's balance.
CE_C5_NonPositiveAmountRejected ==
  \A s \in Slots :
    ( /\ req[s].op = "transfer" /\ req[s].pc = "done"
      /\ (~req[s].amount.isNum \/ req[s].amount.val <= 0) )
    => (req[s].status # 200 /\ ~req[s].debited /\ ~req[s].applied)

\* C6 as stated: whenever transferCredit runs with the actor's stored
\* creditBalance below the amount, it ends with the 400 insufficient-balance
\* error.
CE_C6_InsufficientAlways400 ==
  [][\A s \in Slots :
       ( /\ req[s].op = "transfer" /\ req[s].pc \in {"check", "actor"}
         /\ ValidNumber(req[s].amount)
         /\ users[req[s].actor].exists
         /\ users[req[s].actor].creditBalance < req[s].amount.val
         /\ Ends(s) )
       => (req'[s].status = 400 /\ req'[s].msg = "Insufficient credit balance")
    ]_vars

\* C6 amended: when the target account exists (it was found) and the actor's
\* stored creditBalance, read by the handler, is less than the amount,
\* transferCredit ends with the 400 insufficient-balance error and no
\* account changes.
Thm_C6_InsufficientBalance ==
  [][\A s \in Slots :
       ( /\ req[s].op = "transfer" /\ req[s].pc = "actor" /\ Steps(s)
         /\ users[req[s].actor].exists
         /\ users[req[s].actor].creditBalance < req[s].amount.val )
       => ( /\ req'[s].pc = "done"
            /\ req'[s].status = 400 /\ req'[s].msg = "Insufficient credit balance"
            /\ ~req'[s].debited /\ ~req'[s].applied
            /\ users' = users )
    ]_vars

Wit_C6_InsufficientBalance ==
  \E s \in Slots :
    /\ req[s].op = "transfer" /\ req[s].pc = "done"
    /\ req[s].status = 400 /\ req[s].msg = "Insufficient credit balance"
    /\ users[req[s].target].exists
    /\ users[req[s].actor].creditBalance < req[s].amount.val

\* C7: in each of the six service methods the role checks allow exactly the
\* pairs of the rule table and deny every other pair, the actor roles 'user'
\* and any unrecognized role included.
Thm_C7_RuleTable ==
  authOut # 0 =>
    authOut = (IF <<authIn.actorRole, authIn.targetRole>> \in RuleTable THEN 200 ELSE 403)

Wit_C7_RuleTable ==
  /\ authOut = 403
  /\ authIn.op = "update" /\ authIn.actorRole = "retailer" /\ authIn.targetRole = "distributor"

\* C8 as stated: on the ban and unban endpoints a non-admin actor is denied
\* only when the (actor role, target role) pair is outside the rule table.
CE_C8_BanDependsOnRolesOnly ==
  [][\A s \in Slots :
       ( /\ req[s].op \in {"ban", "unban"} /\ Ends(s)
         /\ users[req[s].target].exists
         /\ req'[s].status = 403 )
       => <<req[s].role, users[req[s].target].role>> \notin RuleTable
    ]_vars

\* C8 amended: for update, delete, transfer and adjust the ALLOW/DENY outcome
\* depends only on the actor's role and the target's role; on the ban and
\* unban endpoints a non-admin actor is denied with 403 whenever the target's
\* parentId is not the actor's id, and otherwise by the same role pair.
Thm_C8_SubtreeOnlyForBan ==
  [][\A s \in Slots :
       LET r == req[s]
           t == users[r.target]
           denied == Ends(s) /\ req'[s].status = 403
       IN  /\ (r.op \in {"update", "delete"} /\ r.pc = "check" /\ Steps(s) /\ t.exists) =>
                 (denied <=> <<r.role, t.role>> \notin RuleTable)
           /\ (r.op = "adjust" /\ r.pc = "check" /\ Steps(s) /\ t.exists /\ ValidNumber(r.amount)) =>
                 (denied <=> <<r.role, t.role>> \notin RuleTable)
           /\ (r.op = "transfer" /\ r.pc = "actor" /\ Steps(s) /\ users[r.actor].exists
                 /\ users[r.actor].creditBalance >= r.amount.val) =>
                 (denied <=> <<r.role, r.tRole>> \notin RuleTable)
           /\ (r.op \in {"ban", "unban"} /\ r.pc = "view" /\ Steps(s) /\ t.exists) =>
                 (denied <=> (r.role # "admin" /\ t.parentId # r.actor))
           /\ (r.op \in {"ban", "unban"} /\ r.pc = "check" /\ Steps(s) /\ t.exists) =>
                 (denied <=> <<r.role, t.role>> \notin RuleTable)
    ]_vars

Wit_C8_SubtreeOnlyForBan ==
  \E s \in Slots :
    /\ req[s].op = "ban" /\ req[s].pc = "done" /\ req[s].status = 200
    /\ req[s].role = "distributor"
    /\ users[req[s].target].parentId = req[s].actor
    /\ users[req[s].target].isBanned

\* C9 as stated: every mutation request whose target account does not exist
\* ends with 404.
CE_C9_MissingTargetAlways404 ==
  [][\A s \in Slots :
       (AtTargetLookup(s) /\ Steps(s) /\ ~users[req[s].target].exists)
       => (req'[s].pc = "done" /\ req'[s].status = 404)
    ]_vars

\* C9 amended: a mutation request whose target account does not exist ends
\* with 404 whatever the actor's role, the existence check coming before the
\* role checks; only a transfer or adjust request with an invalid amount is
\* answered 400 before the target is looked up.
Thm_C9_MissingTarget404 ==
  [][\A s \in Slots :
       ( /\ AtTargetLookup(s) /\ Steps(s) /\ ~users[req[s].target].exists
         /\ (req[s].op \in {"transfer", "adjust"} => ValidNumber(req[s].amount)) )
       => (req'[s].pc = "done" /\ req'[s].status = 404 /\ req'[s].msg = "User not found")
    ]_vars

Wit_C9_MissingTarget404 ==
  \E s \in Slots :
    /\ req[s].pc = "done" /\ req[s].status = 404
    /\ req[s].op = "update" /\ req[s].role = "user"
    /\ ~InitUsers[req[s].target].exists

\* C10: a mutation request that ends in 404 or 403 has written nothing: the
\* step that ends it changes no account and none of its earlier writes took
\* place.
Thm_C10_FailFastNoMutation ==
  [][\A s \in Slots :
       (Ends(s) /\ req'[s].status \in {403, 404})
       => (users' = users /\ ~req'[s].debited /\ ~req'[s].applied)
    ]_vars

Wit_C10_FailFastNoMutation ==
  \E s \in Slots :
    /\ req[s].pc = "done" /\ req[s].status = 403 /\ req[s].op = "transfer"
    /\ users[req[s].actor].exists /\ users[req[s].target].exists

\* ------------------------------------------------------------------------
\* C11 .. C20
\* ------------------------------------------------------------------------

\* C11: an authenticated actor's single-account read of its own id, the
\* account existing, is answered 200.
CE_C11_SelfReadAllowed ==
  [][\A s \in Slots :
       ( /\ Steps(s) /\ req[s].pc = "view" /\ req[s].op = "view"
         /\ req[s].target = req[s].actor /\ users[req[s].target].exists )
       => req'[s].status = 200
    ]_vars

\* C12: an account is created only for an actor whose role is permitted on
\* the new account's role by the rule table.
CE_C12_CreationAuthorized ==
  [][\A s \in Slots :
       (Steps(s) /\ req[s].op = "create" /\ req'[s].status = 201)
       => <<req[s].role, users'[req'[s].target].role>> \in RuleTable
    ]_vars

\* C13: getUsersUnderSuperDistributor(S) for a super_distributor S contains
\* every user created by S, by a distributor created by S, by a retailer
\* created by S, or by a retailer created by a distributor created by S;
\* getUsersUnderDistributor(D) for a distributor D contains every user
\* created by D or by a retailer created by D.
Thm_C13_SkipLevelIncluded ==
  LET root == listing.root
      listed == {listing.ids[k] : k \in DOMAIN listing.ids}
      distributors == Matching({root}, "distributor")
      retailers == Matching({root}, "retailer")
  IN  /\ (listing.method = "getUsersUnderSuperDistributor"
            /\ users[root].role = "super_distributor")
         => Matching({root} \cup distributors \cup retailers
                       \cup Matching(distributors, "retailer"), "user") \subseteq listed
      /\ (listing.method = "getUsersUnderDistributor" /\ users[root].role = "distributor")
         => Matching({root} \cup retailers, "user") \subseteq listed

\* a super distributor's listing holds the user of a retailer of one of its
\* distributors, three hops down
Wit_C13_SkipLevelIncluded ==
  /\ listing.method = "getUsersUnderSuperDistributor"
  /\ users[listing.root].role = "super_distributor"
  /\ \E d, r, u, v \in ListedIds :
       /\ users[d].role = "distributor" /\ users[d].createdBy = listing.root
       /\ users[r].role = "retailer" /\ users[r].createdBy = d
       /\ users[u].role = "user" /\ users[u].createdBy = r
       /\ \E k \in DOMAIN listing.ids : listing.ids[k] = u
  /\ Len(listing.ids) = 1

\* C14: for every root whose role a listing method is called for, the
\* method's answer holds exactly the accounts of the listed role that are
\* reachable from the root along createdBy edges through existing accounts.
CE_C14_ListingIsReachability ==
  \A method \in ListingMethods, root \in Ids :
    (users[root].exists /\ users[root].role = RootRole(method))
    => \A ids \in Listing(method, root) :
         {ids[k] : k \in DOMAIN ids}
           = {i \in Descendants(root) : users[i].role = ListedRole(method)}

\* C15: a listing contains each account id at most once.
CE_C15_NoDuplicates ==
  \A a, b \in DOMAIN listing.ids : a # b => listing.ids[a] # listing.ids[b]

\* C16: a listing is in createdAt-descending order, and accounts of equal
\* createdAt follow each other in the order of their ids.
CE_C16_OrderedByCreatedAtThenId ==
  (\A a, b \in DOMAIN listing.ids : a # b => listing.ids[a] # listing.ids[b])
  => \A k \in 1 .. Len(listing.ids) - 1 :
       \/ CreatedAt(listing.ids[k]) > CreatedAt(listing.ids[k + 1])
       \/ /\ CreatedAt(listing.ids[k]) = CreatedAt(listing.ids[k + 1])
          /\ listing.ids[k] < listing.ids[k + 1]

\* C17: every existing non-admin account has a createdBy chain of existing
\* accounts that ends at an admin.
CE_C17_ChainEndsAtAdmin ==
  \A i \in Ids :
    (users[i].exists /\ users[i].role # "admin") => ChainEndsAtAdmin(i, Cardinality(Ids))

\* C18: a ban whose checks find the target existing, permitted and not
\* banned goes on to its write, and the write of a ban sets isBanned = true,
\* isActive = false and isOnline = false on the target and answers 200; a
\* permitted ban whose check finds the target already banned is answered 400
\* 'User already banned' and changes no account.
Thm_C18_BanSetsFlagsOrAlreadyBanned ==
  [][\A s \in Slots :
       (req[s].op = "ban" /\ Steps(s) /\ users[req[s].target].exists)
       => LET t == req[s].target
          IN  /\ ( /\ req[s].pc = "check"
                   /\ BanPermitted(req[s].role, users[t].role)
                   /\ ~users[t].isBanned )
                 => (req'[s].pc = "write" /\ users' = users)
              /\ req[s].pc = "write"
                 => ( /\ users'[t].isBanned /\ ~users'[t].isActive /\ ~users'[t].isOnline
                      /\ \A i \in Ids \ {t} : users'[i] = users[i]
                      /\ req'[s].pc = "done" /\ req'[s].status = 200 )
              /\ ( /\ req[s].pc = "check"
                   /\ BanPermitted(req[s].role, users[t].role)
                   /\ users[t].isBanned )
                 => ( /\ req'[s].pc = "done" /\ req'[s].status = 400
                      /\ req'[s].msg = "User already banned"
                      /\ users' = users )
    ]_vars

\* a second ban of an account that a first ban took offline was answered 400
Wit_C18_BanSetsFlagsOrAlreadyBanned ==
  \E s \in Slots :
    /\ req[s].op = "ban" /\ req[s].pc = "done" /\ req[s].status = 400
    /\ req[s].msg = "User already banned"
    /\ InitUsers[req[s].target].isOnline /\ ~InitUsers[req[s].target].isBanned
    /\ users[req[s].target].isBanned /\ ~users[req[s].target].isOnline

\* C19: a request whose account is banned, deactivated or deleted when the
\* authenticate middleware reads it is answered 401 there and reaches no
\* handler; a login or a token refresh that finds its account in that state is
\* answered 401 and issues no token; none of the three changes an account.
Thm_C19_BlockedAccountRejected ==
  [][\A s \in Slots :
       Steps(s) =>
         /\ (req[s].pc = "auth" /\ Blocked(users[req[s].actor]))
            => (req'[s].pc = "done" /\ req'[s].status = 401 /\ users' = users)
         /\ (req[s].pc = "login" /\ Blocked(users[req[s].target]))
            => ( /\ req'[s].pc = "done" /\ req'[s].status = 401
                 /\ users' = users /\ tokens' = tokens )
         /\ (req[s].pc = "refresh" /\ Blocked(users[req[s].actor]))
            => ( /\ req'[s].pc = "done" /\ req'[s].status = 401
                 /\ users' = users /\ tokens' = tokens )
    ]_vars

\* the distributor was banned after its token was issued, and its request
\* with that token was answered 401
Wit_C19_BlockedAccountRejected ==
  \E s \in Slots :
    /\ req[s].pc = "done" /\ req[s].status = 401 /\ req[s].op \in SessionOps
    /\ GenerateAccessToken([userId |-> req[s].actor, role |-> req[s].role]) \in SessionTokens
    /\ users[req[s].actor].isBanned

\* C20: the role checks of a request decide by the role stored in the
\* actor's account: when the stored role of the actor is not permitted on the
\* target's role, the request is answered 403.
CE_C20_StoredRoleDecides ==
  [][\A s \in Slots :
       ( /\ Steps(s) /\ req[s].pc = "check" /\ req[s].op \in SessionOps
         /\ users[req[s].actor].exists /\ users[req[s].target].exists
         /\ ~Permitted(req[s].op, users[req[s].actor].role, users[req[s].target].role) )
       => req'[s].status = 403
    ]_vars

\* ------------------------------------------------------------------------
\* C21 .. C30
\* ------------------------------------------------------------------------

\* C21: the write of an adjustCredit request adds exactly the amount to the
\* creditBalance of the target and changes no other account, the actor's
\* included; no other step of the request changes an account.
Thm_C21_AdjustChangesTargetOnly ==
  [][\A s \in Slots :
       (Steps(s) /\ req[s].op = "adjust")
       => IF req[s].pc = "write" /\ users[req[s].target].exists
          THEN /\ users'[req[s].target].creditBalance
                    = users[req[s].target].creditBalance + req[s].amount.val
               /\ \A i \in Ids \ {req[s].target} : users'[i] = users[i]
          ELSE users' = users
    ]_vars

\* an adjustCredit by +1 has ended: the target is up by 1, the actor is where
\* it was
Wit_C21_AdjustChangesTargetOnly ==
  \E s \in Slots :
    /\ req[s].op = "adjust" /\ req[s].pc = "done" /\ req[s].status = 200 /\ req[s].applied
    /\ req[s].amount.val = 1 /\ req[s].actor # req[s].target
    /\ users[req[s].target].creditBalance = InitUsers[req[s].target].creditBalance + 1
    /\ users[req[s].actor].creditBalance = InitUsers[req[s].actor].creditBalance

\* the sum over the requests in the slots of the deltas they have applied to
\* account i
RECURSIVE AppliedDelta(_, _)
AppliedDelta(i, slots) ==
  IF slots = {}
  THEN 0
  ELSE LET s == CHOOSE x \in slots : TRUE
           r == req[s]
       IN  (IF r.op = "transfer" /\ r.debited /\ r.actor = i THEN 0 - r.amount.val ELSE 0)
           + (IF r.op \in {"transfer", "adjust"} /\ r.applied /\ r.target = i
              THEN r.amount.val ELSE 0)
           + AppliedDelta(i, slots \ {s})

\* C24: while every request received so far is still in its slot, each
\* account's creditBalance is its initial balance plus the sum of the deltas
\* the adjustCredit and transferCredit requests have applied to it, whatever
\* the interleaving of their steps.
Thm_C24_NoLostUpdate ==
  ( /\ Cardinality({s \in Slots : req[s].pc # "idle"}) = started
    /\ \A s \in Slots : req[s].op \in {"none", "transfer", "adjust"} )
  => \A i \in Ids :
       users[i].exists
       => users[i].creditBalance = InitUsers[i].creditBalance + AppliedDelta(i, Slots)

\* two requests have each added 1 to the same account
Wit_C24_NoLostUpdate ==
  /\ started >= 2
  /\ \A s \in Slots :
       /\ req[s].pc = "done" /\ req[s].applied /\ req[s].amount.val = 1
       /\ req[s].op \in {"transfer", "adjust"} /\ req[s].target = req[1].target
  /\ users[req[1].target].creditBalance = InitUsers[req[1].target].creditBalance + 2

\* C26: transferCredit checks in the order target exists, actor exists,
\* actor's balance, role permission: with both accounts found, an actor whose
\* balance is below the amount is answered 400 whatever its role, and a 403
\* is given only when the balance suffices.
Thm_C26_TransferCheckOrder ==
  [][\A s \in Slots :
       (Steps(s) /\ req[s].op = "transfer")
       => /\ (req[s].pc = "check" /\ ValidNumber(req[s].amount)
                /\ ~users[req[s].target].exists)
             => req'[s].status = 404
          /\ (req[s].pc = "actor" /\ ~users[req[s].actor].exists)
             => req'[s].status = 404
          /\ (req[s].pc = "actor" /\ users[req[s].actor].exists)
             => IF users[req[s].actor].creditBalance < req[s].amount.val
                THEN req'[s].status = 400
                ELSE IF ~TransferPermitted(req[s].role, req[s].tRole)
                THEN req'[s].status = 403
                ELSE req'[s].pc = "debit"
    ]_vars

\* a user, permitted on no one, asked to transfer more than it has and was
\* answered 400
Wit_C26_TransferCheckOrder ==
  \E s \in Slots :
    /\ req[s].op = "transfer" /\ req[s].pc = "done" /\ req[s].status = 400
    /\ ValidNumber(req[s].amount)
    /\ ~TransferPermitted(req[s].role, req[s].tRole) /\ req[s].tRole # ""
    /\ users[req[s].actor].creditBalance < req[s].amount.val

\* C22 as stated: once the finish handler of a transfer-credit request that
\* was answered 200 has run, the log holds exactly one entry of that request,
\* with action CREDIT_TRANSFER, status SUCCESS, the actor as userId and the
\* target as resourceId.
CE_C22_ExactlyOneSuccessEntry ==
  \A s \in Slots :
    (req[s].op = "transfer" /\ req[s].pc = "done" /\ req[s].status = 200 /\ req[s].logged # "no")
    => Cardinality({k \in DOMAIN logs :
                      /\ logs[k].request = req[s].id
                      /\ logs[k].action = "CREDIT_TRANSFER"
                      /\ logs[k].status = "SUCCESS"
                      /\ logs[k].userId = req[s].actor
                      /\ logs[k].resourceId = req[s].target}) = 1

\* C22, amended: a transfer-credit request has at most one log entry; it has
\* exactly one once its log write has succeeded and none while the write is
\* pending, after it failed, or when authenticate turned the request away;
\* the entry has action CREDIT_TRANSFER, the actor as userId, the target as
\* resourceId, and status SUCCESS when the response code is in 200..399 and
\* FAILED otherwise, so a failed transfer never has a SUCCESS entry.
Thm_C22_AtMostOneEntry ==
  \A s \in Slots :
    req[s].op = "transfer"
    => LET entries == {k \in DOMAIN logs : logs[k].request = req[s].id}
       IN  /\ Cardinality(entries) = (IF req[s].logged = "saved" THEN 1 ELSE 0)
           /\ \A k \in entries :
                /\ logs[k].action = "CREDIT_TRANSFER"
                /\ logs[k].userId = req[s].actor
                /\ logs[k].resourceId = req[s].target
                /\ logs[k].status = (IF req[s].status = 200 THEN "SUCCESS" ELSE "FAILED")
           /\ req[s].status >= 400
              => ~\E k \in entries : logs[k].status = "SUCCESS"

\* both a successful transfer with its SUCCESS entry and a failed transfer
\* with its FAILED entry are in the log
Wit_C22_AtMostOneEntry ==
  /\ \E s \in Slots :
       /\ req[s].op = "transfer" /\ req[s].status = 200 /\ req[s].applied
       /\ req[s].logged = "saved"
       /\ \E k \in DOMAIN logs : logs[k].request = req[s].id /\ logs[k].status = "SUCCESS"
  /\ \E s \in Slots :
       /\ req[s].op = "transfer" /\ req[s].status = 400
       /\ req[s].logged = "saved"
       /\ \E k \in DOMAIN logs : logs[k].request = req[s].id /\ logs[k].status = "FAILED"

\* C23: the step in which a log write fails changes no account, leaves the
\* status and the message of the response already sent as they were, and
\* adds nothing to the log.
Thm_C23_LogFailureIsSilent ==
  [][\A s \in Slots :
       (req[s].logged = "no" /\ req'[s].logged = "failed")
       => /\ users' = users
          /\ req'[s] = [req[s] EXCEPT !.logged = "failed"]
          /\ logs' = logs ]_vars

\* the log write of an applied transfer, answered 200, has failed, and the
\* target still holds the credit
Wit_C23_LogFailureIsSilent ==
  \E s \in Slots :
    /\ req[s].op = "transfer" /\ req[s].status = 200 /\ req[s].applied
    /\ req[s].logged = "failed"
    /\ users[req[s].target].creditBalance > InitUsers[req[s].target].creditBalance
    /\ logs = <<>>


CE_C28_BannedIsInactiveOffline ==
  \A i \in Ids :
    (users[i].exists /\ users[i].isBanned) => (~users[i].isActive /\ ~users[i].isOnline)

\* C29 as stated: no step of an updateUser, ban, unban, login or logout
\* request changes the creditBalance of any account.
CE_C29_OnlyCreditOpsChangeBalance ==
  [][\A s \in Slots :
       (Steps(s) /\ req[s].op \in {"update", "ban", "unban", "login", "logout"})
       => \A i \in Ids : users'[i].creditBalance = users[i].creditBalance ]_vars

\* the sum of creditBalance over a set of accounts
RECURSIVE SumOfBalances(_)
SumOfBalances(ids) ==
  IF ids = {} THEN 0
  ELSE LET i == CHOOSE x \in ids : TRUE
       IN  users[i].creditBalance + SumOfBalances(ids \ {i})

\* the ids of a sequence
Range(ids) == {ids[k] : k \in DOMAIN ids}

\* C27 as stated: the statistics of a super_distributor or distributor root
\* agree with its listings: each total is the length of the listing of that
\* role, and totalPoints is the sum of creditBalance over the listed accounts.
CE_C27_StatsAgreeWithListings ==
  /\ listing.method = "getSuperDistributorStats"
     => \A d \in GetDistributorsUnderSuperDistributor(listing.root),
           r \in GetRetailersUnderSuperDistributor(listing.root),
           u \in GetUsersUnderSuperDistributor(listing.root) :
          /\ listing.stats.totalDistributors = Len(d)
          /\ listing.stats.totalRetailers = Len(r)
          /\ listing.stats.totalUsers = Len(u)
          /\ listing.stats.totalPoints = SumOfBalances(Range(d) \cup Range(r) \cup Range(u))
  /\ listing.method = "getDistributorStats"
     => \A r \in GetRetailersUnderDistributor(listing.root),
           u \in GetUsersUnderDistributor(listing.root) :
          /\ listing.stats.totalDistributors = 0
          /\ listing.stats.totalRetailers = Len(r)
          /\ listing.stats.totalUsers = Len(u)
          /\ listing.stats.totalPoints = SumOfBalances(Range(r) \cup Range(u))

\* C30 as stated: every account a list endpoint returns to an actor whose
\* account is not an admin has the requested role and is reachable from the
\* actor along createdBy edges, and an actor whose account has role 'user'
\* is answered 403.
CE_C30_ListsStayInSubtree ==
  [][\A s \in Slots :
       (req[s].pc = "check" /\ req[s].op \in ListEndpoints /\ Steps(s)
          /\ users[req[s].actor].role # "admin")
       => /\ req'[s].status = 200
             => \A k \in DOMAIN listing'.ids :
                  /\ users[listing'.ids[k]].role = RequestedRole(req[s].op)
                  /\ listing'.ids[k] \in Descendants(req[s].actor)
          /\ users[req[s].actor].role = "user" => req'[s].status = 403 ]_vars
====
